---- MODULE Spec2Model ----
(***************************************************************************)
(* Model of the genealogy converter (scripts/convert.py) and of the JSON   *)
(* route of the delivery server (server.py).                               *)
(*                                                                         *)
(* Text is modelled as a sequence of one-character strings, so that        *)
(* strip(), lower(), the delimiter split and the digit-suffix regex are    *)
(* computed character by character, as the Python code computes them.      *)
(***************************************************************************)
EXTENDS Naturals, Sequences, FiniteSets

VARIABLES
    \* --- normalize_cell called on one cell (SpecNorm) ---
    cell,       \* the raw cell text handed to the code
    npc,        \* "start", "normalized", "parent", "skipped", "renormalized", "reparent"
    tokens,     \* what normalize_cell(cell) returned
    picked,     \* one token the pipeline produced, fed to normalize_cell again
    renorm,     \* what normalize_cell(picked) returned
    \* --- the batch pipeline of main() (Spec) ---
    phase,      \* "rows", "mapped", "built", "transformed", "node"
    rows,       \* history: the rows iterated so far (kept by SpecMap only)
    pcm,        \* the OrderedDict: a sequence of [key, kids] entries
    tree,       \* what build_tree returned: [isList, nodes]
    start,      \* the token of a direct make_node call
    node,       \* what make_node(start, pcm, set()) returned
    before,     \* the forest as it was when transform_names was entered
    writes,     \* the assignments to a name field, in order: node paths
    returned,   \* what each top-level transform_names call returned: node paths
    \* --- one GET of /geneology.json against a changing file (SpecServer) ---
    file,       \* "absent", "valid" (parses as JSON) or "invalid"
    spc,        \* position of the handler
    reqPath,    \* the path of the request
    seenAtCheck,\* the file as os.path.exists saw it
    seenAtOpen, \* the file as open()/json.load saw it
    status,     \* the status line sent, 0 when none yet
    body,       \* "json", "error" or "none"
    served      \* requests answered so far

normVars == <<cell, npc, tokens, picked, renorm>>
pipeVars == <<phase, rows, pcm, tree, start, node, before, writes, returned>>
servVars == <<file, spc, reqPath, seenAtCheck, seenAtOpen, status, body, served>>
vars == <<normVars, pipeVars, servVars>>

(***************************************************************************)
(* Bounds                                                                  *)
(***************************************************************************)
MaxCellLen == 4
MaxRows == 3
MaxRequests == 2
RecursionLimit == 8

(***************************************************************************)
(* Characters and strings                                                  *)
(***************************************************************************)
Delims == {",", ";", "|"}
Spaces == {" "}
Digits == {"1", "2"}
NormChars == {"a", "n", "o", "e", "N", " ", ",", ";", "|"}

NAN == <<"n", "a", "n">>
NONE == <<"n", "o", "n", "e">>
Missing == {NAN, NONE}

\* str.lower() on one character
LowerChar(c) ==
    CASE c = "A" -> "a"
      [] c = "B" -> "b"
      [] c = "C" -> "c"
      [] c = "N" -> "n"
      [] OTHER -> c

\* str.upper() on one character
UpperChar(c) ==
    CASE c = "a" -> "A"
      [] c = "b" -> "B"
      [] c = "c" -> "C"
      [] c = "n" -> "N"
      [] c = "o" -> "O"
      [] c = "e" -> "E"
      [] OTHER -> c

Lower(s) == [i \in 1..Len(s) |-> LowerChar(s[i])]

RECURSIVE LStrip(_)
LStrip(s) == IF s # <<>> /\ Head(s) \in Spaces THEN LStrip(Tail(s)) ELSE s

RECURSIVE RStrip(_)
RStrip(s) ==
    IF s # <<>> /\ s[Len(s)] \in Spaces THEN RStrip(SubSeq(s, 1, Len(s) - 1)) ELSE s

\* str.strip()
Strip(s) == RStrip(LStrip(s))

HasDelim(s) == \E i \in 1..Len(s) : s[i] \in Delims

\* SPLIT_RE.split(s): cut at every maximal run of delimiter characters; a
\* run at either end leaves an empty part there.  cur is the part being read.
RECURSIVE SplitFrom(_, _, _)
SplitFrom(s, i, cur) ==
    IF i > Len(s) THEN <<cur>>
    ELSE IF s[i] \in Delims
         THEN IF i > 1 /\ s[i - 1] \in Delims
              THEN SplitFrom(s, i + 1, cur)
              ELSE <<cur>> \o SplitFrom(s, i + 1, <<>>)
         ELSE SplitFrom(s, i + 1, Append(cur, s[i]))

ReSplit(s) == SplitFrom(s, 1, <<>>)

\* A mutant of SelectParts: the filter reads "if p" instead of "if p.strip()".
RECURSIVE SelectPartsNoTrim(_)
SelectPartsNoTrim(parts) ==
    IF parts = <<>> THEN <<>>
    ELSE IF Head(parts) # <<>>
         THEN <<Lower(Strip(Head(parts)))>> \o SelectPartsNoTrim(Tail(parts))
         ELSE SelectPartsNoTrim(Tail(parts))

\* line 16: [p.strip().lower() for p in parts if p.strip()]
RECURSIVE SelectParts(_)
SelectParts(parts) ==
    IF parts = <<>> THEN <<>>
    ELSE IF Strip(Head(parts)) # <<>>
         THEN <<Lower(Strip(Head(parts)))>> \o SelectParts(Tail(parts))
         ELSE SelectParts(Tail(parts))

\* The text normalize_cell works on: str(cell).strip().lower()
CellText(c) == Lower(Strip(c))

normalize_cell(c) ==
    LET s == CellText(c) IN
    IF s = <<>> \/ s \in Missing THEN <<>>
    ELSE IF HasDelim(s) THEN SelectParts(ReSplit(s))
    ELSE <<s>>

\* build_parent_child_map, lines 23-25: the parent token of a row, and
\* whether the row is skipped.
ParentToken(c) == Lower(Strip(c))
SkipRow(parent) == parent = <<>> \/ parent \in Missing

(***************************************************************************)
(* SpecNorm: normalize_cell and the parent derivation on every cell text   *)
(* of at most MaxCellLen characters.                                       *)
(***************************************************************************)
RECURSIVE StringsUpTo(_, _)
StringsUpTo(chars, n) ==
    IF n = 0 THEN {<<>>}
    ELSE LET shorter == StringsUpTo(chars, n - 1) IN
         shorter \cup {Append(s, c) : s \in {t \in shorter : Len(t) = n - 1}, c \in chars}

NormCells == StringsUpTo(NormChars, MaxCellLen)

PipeIdle ==
    /\ phase = "idle" /\ rows = <<>> /\ pcm = <<>>
    /\ tree = [isList |-> TRUE, nodes |-> <<>>]
    /\ start = <<>> /\ node = <<>> /\ before = <<>>
    /\ writes = <<>> /\ returned = <<>>

ServIdle ==
    /\ file = "absent" /\ spc = "idle" /\ reqPath = "none"
    /\ seenAtCheck = "none" /\ seenAtOpen = "none"
    /\ status = 0 /\ body = "none" /\ served = 0

NormIdle ==
    /\ cell = <<>> /\ npc = "idle" /\ tokens = <<>>
    /\ picked = <<>> /\ renorm = <<>>

InitNorm ==
    /\ cell \in NormCells
    /\ npc = "start" /\ tokens = <<>> /\ picked = <<>> /\ renorm = <<>>
    /\ PipeIdle /\ ServIdle

\* a relative cell: line 29
NormalizeCell ==
    /\ npc = "start"
    /\ tokens' = normalize_cell(cell)
    /\ npc' = "normalized"
    /\ UNCHANGED <<cell, picked, renorm, pipeVars, servVars>>

\* the parent cell: lines 23-25, the row is kept
DeriveParent ==
    /\ npc = "start"
    /\ ~SkipRow(ParentToken(cell))
    /\ tokens' = <<ParentToken(cell)>>
    /\ npc' = "parent"
    /\ UNCHANGED <<cell, picked, renorm, pipeVars, servVars>>

\* the parent cell: lines 23-25, the row is skipped
SkipParent ==
    /\ npc = "start"
    /\ SkipRow(ParentToken(cell))
    /\ npc' = "skipped"
    /\ UNCHANGED <<cell, tokens, picked, renorm, pipeVars, servVars>>

\* one produced token is normalized again
Renormalize ==
    /\ npc \in {"normalized", "parent"}
    /\ \E i \in 1..Len(tokens) :
         /\ picked' = tokens[i]
         /\ renorm' = normalize_cell(tokens[i])
    /\ npc' = IF npc = "parent" THEN "reparent" ELSE "renormalized"
    /\ UNCHANGED <<cell, tokens, pipeVars, servVars>>

NextNorm == NormalizeCell \/ DeriveParent \/ SkipParent \/ Renormalize

SpecNorm == InitNorm /\ [][NextNorm]_vars

(***************************************************************************)
(* build_parent_child_map                                                  *)
(***************************************************************************)
RECURSIVE Concat(_)
Concat(ss) == IF ss = <<>> THEN <<>> ELSE Head(ss) \o Concat(Tail(ss))

Elems(s) == {s[i] : i \in 1..Len(s)}

\* lines 31-36: remove duplicates (and empty strings) but keep order
RECURSIVE DedupFrom(_, _)
DedupFrom(raw, seen) ==
    IF raw = <<>> THEN <<>>
    ELSE IF Head(raw) # <<>> /\ Head(raw) \notin seen
         THEN <<Head(raw)>> \o DedupFrom(Tail(raw), seen \cup {Head(raw)})
         ELSE DedupFrom(Tail(raw), seen)

Dedup(raw) == DedupFrom(raw, {})

\* lines 27-29: the tokens of every cell after the first, concatenated
RawChildren(row) == Concat([i \in 1..(Len(row) - 1) |-> normalize_cell(row[i + 1])])

PcmKeys(m) == [i \in 1..Len(m) |-> m[i].key]
PcmHas(m, k) == \E i \in 1..Len(m) : m[i].key = k
\* pcm.get(k, [])
PcmGet(m, k) ==
    IF PcmHas(m, k) THEN m[CHOOSE i \in 1..Len(m) : m[i].key = k].kids ELSE <<>>

\* A mutant of AppendNew: the membership test of line 39 is left out.
AppendAll(kids, children) == kids \o children

\* lines 38-40: append every child the entry does not hold yet
RECURSIVE AppendNew(_, _)
AppendNew(kids, children) ==
    IF children = <<>> THEN kids
    ELSE IF Head(children) \in Elems(kids)
         THEN AppendNew(kids, Tail(children))
         ELSE AppendNew(Append(kids, Head(children)), Tail(children))

\* lines 37-42
Merge(m, parent, children) ==
    IF PcmHas(m, parent)
    THEN [i \in 1..Len(m) |->
            IF m[i].key = parent
            THEN [key |-> parent, kids |-> AppendNew(m[i].kids, children)]
            ELSE m[i]]
    ELSE Append(m, [key |-> parent, kids |-> children])

\* lines 23-42: one iteration of the loop over the rows
AddRow(m, row) ==
    LET parent == ParentToken(row[1]) IN
    IF SkipRow(parent) THEN m
    ELSE Merge(m, parent, Dedup(RawChildren(row)))

(***************************************************************************)
(* make_node and build_tree                                                *)
(***************************************************************************)
Leaf(name) == [name |-> name, children |-> <<>>]

\* What a call deeper than the interpreter's recursion limit leaves behind.
RecursionError == Leaf(<<"RecursionError">>)

\* A mutant of MakeNode: the cycle guard of lines 48-49 is left out.
RECURSIVE MakeNodeNoGuard(_, _, _, _)
MakeNodeNoGuard(name, m, visited, depth) ==
    IF depth > RecursionLimit THEN RecursionError
    ELSE [name |-> name,
          children |-> [i \in 1..Len(PcmGet(m, name)) |->
              MakeNodeNoGuard(PcmGet(m, name)[i], m, visited \cup {name}, depth + 1)]]

\* A mutant of MakeNode: the children are handed visited itself, not a copy,
\* so each child sees what its elder siblings' descents added.
RECURSIVE SharedNode(_, _, _, _)
RECURSIVE SharedKids(_, _, _, _)
SharedNode(name, m, visited, depth) ==
    IF depth > RecursionLimit THEN [node |-> RecursionError, visited |-> visited]
    ELSE IF name \in visited THEN [node |-> Leaf(name), visited |-> visited]
    ELSE LET r == SharedKids(PcmGet(m, name), m, visited \cup {name}, depth + 1)
         IN [node |-> [name |-> name, children |-> r.nodes], visited |-> r.visited]
SharedKids(kids, m, visited, depth) ==
    IF kids = <<>> THEN [nodes |-> <<>>, visited |-> visited]
    ELSE LET first == SharedNode(Head(kids), m, visited, depth)
             rest == SharedKids(Tail(kids), m, first.visited, depth)
         IN [nodes |-> <<first.node>> \o rest.nodes, visited |-> rest.visited]

MakeNodeShared(name, m, visited, depth) == SharedNode(name, m, visited, depth).node

\* make_node(name, pcm, visited); depth counts the frames on the stack
RECURSIVE MakeNode(_, _, _, _)
MakeNode(name, m, visited, depth) ==
    IF depth > RecursionLimit THEN RecursionError
    ELSE IF name \in visited THEN Leaf(name)
    ELSE [name |-> name,
          children |-> [i \in 1..Len(PcmGet(m, name)) |->
              MakeNode(PcmGet(m, name)[i], m, visited \cup {name}, depth + 1)]]

\* line 59
AllChildren(m) == UNION {Elems(m[i].kids) : i \in 1..Len(m)}

IsRoot(m, p) == p \notin AllChildren(m)

\* A mutant of Roots: the fallback of lines 61-62 is left out.
RootsNoFallback(m) == SelectSeq(PcmKeys(m), LAMBDA p : IsRoot(m, p))

\* lines 60-62
Roots(m) ==
    LET roots == SelectSeq(PcmKeys(m), LAMBDA p : IsRoot(m, p)) IN
    IF roots = <<>> THEN PcmKeys(m) ELSE roots

\* lines 64-65: a single node when there is exactly one root, else the list
build_tree(m) ==
    LET forest == [i \in 1..Len(Roots(m)) |-> MakeNode(Roots(m)[i], m, {}, 1)] IN
    [isList |-> Len(forest) # 1, nodes |-> forest]

(***************************************************************************)
(* clean_name and transform_names                                          *)
(***************************************************************************)
\* NUM_SUFFIX_RE.sub("", name): strip the run of digits at the end
RECURSIVE StripDigits(_)
StripDigits(s) ==
    IF s # <<>> /\ s[Len(s)] \in Digits THEN StripDigits(SubSeq(s, 1, Len(s) - 1)) ELSE s

\* str.capitalize()
Capitalize(s) ==
    [i \in 1..Len(s) |-> IF i = 1 THEN UpperChar(s[i]) ELSE LowerChar(s[i])]

clean_name(name) == IF name = <<>> THEN name ELSE Capitalize(StripDigits(name))

\* A mutant of TransformNames: the loop of lines 82-83 stops one child early.
RECURSIVE TransformNamesShort(_, _)
TransformNamesShort(n, path) ==
    LET kids == [i \in 1..Len(n.children) |->
                    IF i = Len(n.children) /\ i > 1
                    THEN [node |-> n.children[i], log |-> <<>>, ret |-> path]
                    ELSE TransformNamesShort(n.children[i], Append(path, i))]
    IN [node |-> [name |-> clean_name(n.name),
                  children |-> [i \in 1..Len(kids) |-> kids[i].node]],
        log |-> <<path>> \o Concat([i \in 1..Len(kids) |-> kids[i].log]),
        ret |-> path]

\* transform_names(node), node being the object at `path`: the node as it is
\* afterwards, the assignments to a name field in the order they happen
\* (line 81 runs before the loop of lines 82-83), and the object returned.
RECURSIVE TransformNames(_, _)
TransformNames(n, path) ==
    LET kids == [i \in 1..Len(n.children) |->
                    TransformNames(n.children[i], Append(path, i))]
    IN [node |-> [name |-> clean_name(n.name),
                  children |-> [i \in 1..Len(kids) |-> kids[i].node]],
        log |-> <<path>> \o Concat([i \in 1..Len(kids) |-> kids[i].log]),
        ret |-> path]

\* main, lines 94-97
TransformTree(t) ==
    LET rs == [i \in 1..Len(t.nodes) |-> TransformNames(t.nodes[i], <<i>>)] IN
    [tree |-> [isList |-> t.isList, nodes |-> [i \in 1..Len(rs) |-> rs[i].node]],
     log |-> Concat([i \in 1..Len(rs) |-> rs[i].log]),
     rets |-> [i \in 1..Len(rs) |-> rs[i].ret]]

(***************************************************************************)
(* Spec: the pipeline of main() over every table whose cells come from     *)
(* PipeParentCells and PipeChildCells; every adjacency map over the three  *)
(* tokens a, b, c1 is reached.                                             *)
(***************************************************************************)
PipeParentCells == {<<"a">>, <<"B">>, <<"c", "1">>}
PipeChildCells == {<<>>, <<"a">>, <<"b">>, <<"c", "1">>}
PipeRows == {<<p, c1, c2>> : p \in PipeParentCells, c1 \in PipeChildCells, c2 \in PipeChildCells}
PipeTokens == {<<"a">>, <<"b">>, <<"c", "1">>}

Init ==
    /\ phase = "rows" /\ rows = <<>> /\ pcm = <<>>
    /\ tree = [isList |-> TRUE, nodes |-> <<>>]
    /\ start = <<>> /\ node = <<>> /\ before = <<>>
    /\ writes = <<>> /\ returned = <<>>
    /\ NormIdle /\ ServIdle

\* build_parent_child_map, one iteration of the loop of line 22
ReadRow ==
    /\ phase = "rows"
    /\ \E row \in PipeRows : pcm' = AddRow(pcm, row)
    /\ UNCHANGED <<phase, rows, tree, start, node, before, writes, returned>>
    /\ UNCHANGED <<normVars, servVars>>

\* build_parent_child_map returns: line 43
ReturnMap ==
    /\ phase = "rows"
    /\ phase' = "mapped"
    /\ UNCHANGED <<rows, pcm, tree, start, node, before, writes, returned>>
    /\ UNCHANGED <<normVars, servVars>>

\* main, line 91
BuildTree ==
    /\ phase = "mapped"
    /\ tree' = build_tree(pcm)
    /\ phase' = "built"
    /\ UNCHANGED <<rows, pcm, start, node, before, writes, returned>>
    /\ UNCHANGED <<normVars, servVars>>

\* main, lines 94-97
TransformAll ==
    /\ phase = "built"
    /\ LET r == TransformTree(tree) IN
         /\ tree' = r.tree
         /\ writes' = r.log
         /\ returned' = r.rets
    /\ before' = tree
    /\ phase' = "transformed"
    /\ UNCHANGED <<rows, pcm, start, node>>
    /\ UNCHANGED <<normVars, servVars>>

\* make_node called on any start token with a fresh visited set
CallMakeNode ==
    /\ phase = "mapped"
    /\ \E t \in PipeTokens :
         /\ start' = t
         /\ node' = MakeNode(t, pcm, {}, 1)
    /\ phase' = "node"
    /\ UNCHANGED <<rows, pcm, tree, before, writes, returned>>
    /\ UNCHANGED <<normVars, servVars>>

Next == ReadRow \/ ReturnMap \/ BuildTree \/ TransformAll \/ CallMakeNode

Spec == Init /\ [][Next]_vars


(***************************************************************************)
(* Trees: positions, ancestors, token paths                                *)
(***************************************************************************)
\* the positions of the nodes of the tree rooted at n, as child-index paths
RECURSIVE NodePaths(_)
NodePaths(n) ==
    {<<>>} \cup UNION {{<<i>> \o p : p \in NodePaths(n.children[i])} : i \in 1..Len(n.children)}

RECURSIVE At(_, _)
At(n, p) == IF p = <<>> THEN n ELSE At(n.children[Head(p)], Tail(p))

\* the names of the proper ancestors of the node at p
AncestorNames(n, p) == {At(n, SubSeq(p, 1, k)).name : k \in 0..(Len(p) - 1)}

ChildNames(n) == [i \in 1..Len(n.children) |-> n.children[i].name]

\* positions in a build_tree result: the root's index, then the path below it
AllPaths(t) == UNION {{<<i>> \o p : p \in NodePaths(t.nodes[i])} : i \in 1..Len(t.nodes)}
AtF(t, p) == At(t.nodes[Head(p)], Tail(p))
AncestorNamesF(t, p) == AncestorNames(t.nodes[Head(p)], Tail(p))

MapTokens(m) == Elems(PcmKeys(m)) \cup AllChildren(m)

SetMax(S) == IF S = {} THEN 0 ELSE CHOOSE x \in S : \A y \in S : y <= x

\* the number of tokens on the longest path from t that repeats no token
RECURSIVE LongestFrom(_, _, _)
LongestFrom(m, t, used) ==
    1 + SetMax({LongestFrom(m, c, used \cup {t}) : c \in Elems(PcmGet(m, t)) \ (used \cup {t})})

LongestTokenPath(m) == SetMax({LongestFrom(m, t, {}) : t \in MapTokens(m)})

(***************************************************************************)
(* Claims checked under Spec                                               *)
(***************************************************************************)
\* C1: make_node(token, pcm, {}) terminates for every map and start token;
\* in its result every node whose token equals the token of a proper
\* ancestor has no children, and no root-to-node path holds more nodes than
\* the longest cycle-free token path of the map plus one.
C1_CycleSafe ==
    phase = "node" =>
        \A p \in NodePaths(node) :
            /\ At(node, p) # RecursionError
            /\ At(node, p).name \in AncestorNames(node, p) => At(node, p).children = <<>>
            /\ Len(p) + 1 <= LongestTokenPath(pcm) + 1

\* a call that ran into a cycle two levels down, in a map with a self-loop
C1_Witness ==
    /\ phase = "node"
    /\ \E p \in NodePaths(node) :
         /\ Len(p) >= 3
         /\ At(node, p).name \in AncestorNames(node, p)
         /\ PcmGet(pcm, At(node, p).name) # <<>>
    /\ \E i \in 1..Len(pcm) : pcm[i].key \in Elems(pcm[i].kids)

\* C2: in the result of build_tree every node whose token does not occur
\* among its proper ancestors has as children exactly the adjacency entry of
\* its token, in the entry's order, also when the token was already expanded
\* in a sibling subtree or under another root.
C2_FullExpansion ==
    phase = "built" =>
        \A p \in AllPaths(tree) :
            AtF(tree, p).name \notin AncestorNamesF(tree, p)
                => ChildNames(AtF(tree, p)) = PcmGet(pcm, AtF(tree, p).name)

\* one token with children is expanded at two different positions
C2_Witness ==
    /\ phase = "built"
    /\ \E p, q \in AllPaths(tree) :
         /\ p # q
         /\ AtF(tree, p).name = AtF(tree, q).name
         /\ AtF(tree, p).children # <<>>
         /\ AtF(tree, q).children # <<>>

\* C4: the roots build_tree uses are exactly the keys that occur in no
\* child list, in key order; all keys, in key order, when no key qualifies;
\* a token that is no key is never a root.
C4_Roots ==
    phase = "built" =>
        LET keys == PcmKeys(pcm)
            names == [i \in 1..Len(tree.nodes) |-> tree.nodes[i].name]
            free == {k \in Elems(keys) : \A i \in 1..Len(pcm) : k \notin Elems(pcm[i].kids)}
            pos(k) == CHOOSE i \in 1..Len(keys) : keys[i] = k
        IN /\ Elems(names) = (IF free # {} THEN free ELSE Elems(keys))
           /\ \A i, j \in 1..Len(names) : i < j => pos(names[i]) < pos(names[j])
           /\ tree.isList = (Len(names) # 1)

\* the fallback: two or more keys, every one of them somebody's child
C4_Witness ==
    /\ phase = "built"
    /\ Len(pcm) >= 2
    /\ \A i \in 1..Len(pcm) : pcm[i].key \in AllChildren(pcm)
    /\ Len(tree.nodes) = Len(pcm)

\* C9: transform_names changes only name fields: the same nodes with the
\* same children in the same order, each name replaced by clean_name of the
\* previous name exactly once, and each call returns the node it was given.
C9_NamesOnly ==
    phase = "transformed" =>
        /\ tree.isList = before.isList
        /\ AllPaths(tree) = AllPaths(before)
        /\ \A p \in AllPaths(before) :
             /\ AtF(tree, p).name = clean_name(AtF(before, p).name)
             /\ Cardinality({k \in 1..Len(writes) : writes[k] = p}) = 1
        /\ Len(writes) = Cardinality(AllPaths(before))
        /\ returned = [i \in 1..Len(before.nodes) |-> <<i>>]

\* a forest three levels deep with a digit-suffixed name that was rewritten
C9_Witness ==
    /\ phase = "transformed"
    /\ Len(before.nodes) >= 2
    /\ \E p \in AllPaths(before) :
         /\ Len(p) >= 3
         /\ AtF(before, p).name = <<"c", "1">>
         /\ AtF(tree, p).name = <<"C">>
         /\ Len(At(before.nodes[Head(p)], <<>>).children) >= 2

\* C10: every token of the map (key or child) is the name of at least one
\* node of the result of build_tree.
C10_AllTokensPresent ==
    phase = "built" =>
        \A t \in MapTokens(pcm) : \E p \in AllPaths(tree) : AtF(tree, p).name = t


(***************************************************************************)
(* Claims checked under SpecNorm                                           *)
(***************************************************************************)
\* C6: for every single token t the pipeline produces (an element returned
\* by normalize_cell, or a parent token derived from cell 0),
\* normalize_cell(t) returns the one-element sequence [t].
C6_Idempotent ==
    npc \in {"renormalized", "reparent"} => renorm = <<picked>>

\* the parts of the trimmed, lowercased cell text that are not the empty string
NonEmptyParts(c) ==
    {i \in 1..Len(ReSplit(CellText(c))) : ReSplit(CellText(c))[i] # <<>>}

\* C7 as stated: for a cell holding a delimiter, normalize_cell returns as
\* many tokens as splitting the text on delimiter runs gives non-empty parts.
C7_CountNonEmptyParts ==
    (npc = "normalized" /\ HasDelim(cell)) => Len(tokens) = Cardinality(NonEmptyParts(cell))

\* the places of the raw cell where a part that holds more than whitespace
\* shows its first such character
WordStarts(c) ==
    {i \in 1..Len(c) :
        /\ c[i] \notin (Delims \cup Spaces)
        /\ \A j \in 1..(i - 1) :
             (\A k \in j..i : c[k] \notin Delims) => c[j] \in Spaces}

\* C7 amended: for a cell holding a delimiter, normalize_cell returns as many
\* tokens as the split gives parts that are non-empty after trimming.
C7_CountNonBlankParts ==
    (npc = "normalized" /\ HasDelim(cell)) => Len(tokens) = Cardinality(WordStarts(cell))

\* a cell with a token and, next to a delimiter, a part of whitespace only
C7_Witness ==
    /\ npc = "normalized"
    /\ HasDelim(cell)
    /\ Len(tokens) = 1
    /\ \E i \in 1..Len(ReSplit(CellText(cell))) :
         /\ ReSplit(CellText(cell))[i] # <<>>
         /\ Strip(ReSplit(CellText(cell))[i]) = <<>>

(***************************************************************************)
(* SpecMap: build_parent_child_map over every table of at most MaxRows     *)
(* rows of three cells (the last may be empty), the rows kept as history.   *)
(***************************************************************************)
MapParentCells == {<<>>, <<" ", "A">>, <<"b">>}
MapChildCells == {<<"B", ";", "n", "a", "n">>, <<"c", "|", "a">>}
MapRows ==
    {<<p, c1, c2>> : p \in MapParentCells, c1 \in MapChildCells, c2 \in MapChildCells \cup {<<>>}}

InitMap == Init

MapReadRow ==
    /\ phase = "rows"
    /\ Len(rows) < MaxRows
    /\ \E row \in MapRows :
         /\ rows' = Append(rows, row)
         /\ pcm' = AddRow(pcm, row)
    /\ UNCHANGED <<phase, tree, start, node, before, writes, returned>>
    /\ UNCHANGED <<normVars, servVars>>

NextMap == MapReadRow \/ ReturnMap

SpecMap == InitMap /\ [][NextMap]_vars

\* the rows that are not skipped, and what each contributes
KeptRows == SelectSeq(rows, LAMBDA r : ~SkipRow(ParentToken(r[1])))
ParentsInOrder == [i \in 1..Len(KeptRows) |-> ParentToken(KeptRows[i][1])]
RawOf(k) ==
    Concat([i \in 1..Len(KeptRows) |->
              IF ParentToken(KeptRows[i][1]) = k THEN RawChildren(KeptRows[i]) ELSE <<>>])

FirstIndex(raw, x) == CHOOSE i \in 1..Len(raw) : raw[i] = x /\ \A j \in 1..(i - 1) : raw[j] # x

\* list holds each element of raw once, ordered by first occurrence in raw
FirstOccurrenceOrder(list, raw) ==
    /\ Elems(list) = Elems(raw)
    /\ \A i, j \in 1..Len(list) : i < j => FirstIndex(raw, list[i]) < FirstIndex(raw, list[j])

\* C3: after any sequence of rows the keys are ordered by the first row of
\* each parent token, and each child list holds no duplicate and lists the
\* children by first occurrence over all rows of that parent; a child equal
\* to its parent is kept.
C3_OrderedUnique ==
    /\ FirstOccurrenceOrder(PcmKeys(pcm), ParentsInOrder)
    /\ \A i \in 1..Len(pcm) : FirstOccurrenceOrder(pcm[i].kids, RawOf(pcm[i].key))

\* three rows of one parent, the third repeating the first, with a self-loop
C3_Witness ==
    /\ Len(rows) = 3
    /\ rows[1] = rows[3]
    /\ rows[1] # rows[2]
    /\ Len(pcm) = 1
    /\ pcm[1].key \in Elems(pcm[1].kids)
    /\ Len(pcm[1].kids) = 4
    /\ Len(RawOf(pcm[1].key)) > 4

IsToken(t) == t # <<>> /\ Lower(t) = t /\ Strip(t) = t /\ t \notin Missing

\* C5: every key and every child element of the map is a token: lowercase,
\* trimmed, non-empty and no missing marker.
C5_AllTokens ==
    \A i \in 1..Len(pcm) :
        /\ IsToken(pcm[i].key)
        /\ \A j \in 1..Len(pcm[i].kids) : IsToken(pcm[i].kids[j])

(***************************************************************************)
(* SpecServer: GET requests handled by GenealogyHandler while another      *)
(* process creates, rewrites and deletes the artifact file.                *)
(***************************************************************************)
JsonRoute == "/geneology.json"
Paths == {JsonRoute, "/index.html"}
Contents == {"valid", "invalid"}

InitServer ==
    /\ file \in {"absent", "valid", "invalid"}
    /\ spc = "idle" /\ reqPath = "none"
    /\ seenAtCheck = "none" /\ seenAtOpen = "none"
    /\ status = 0 /\ body = "none" /\ served = 0
    /\ NormIdle /\ PipeIdle

\* another process writes the file (creates or rewrites it)
WriteFile ==
    /\ \E c \in Contents : file' = c
    /\ file' # file
    /\ UNCHANGED <<spc, reqPath, seenAtCheck, seenAtOpen, status, body, served>>
    /\ UNCHANGED <<normVars, pipeVars>>

\* another process deletes the file
DeleteFile ==
    /\ file # "absent"
    /\ file' = "absent"
    /\ UNCHANGED <<spc, reqPath, seenAtCheck, seenAtOpen, status, body, served>>
    /\ UNCHANGED <<normVars, pipeVars>>

\* a request arrives: do_GET, line 16
Request ==
    /\ spc \in {"idle", "done"}
    /\ served < MaxRequests
    /\ \E p \in Paths : reqPath' = p
    /\ spc' = "routing"
    /\ seenAtCheck' = "none" /\ seenAtOpen' = "none"
    /\ status' = 0 /\ body' = "none"
    /\ UNCHANGED <<file, served>>
    /\ UNCHANGED <<normVars, pipeVars>>

\* do_GET, lines 19-20
RouteJson ==
    /\ spc = "routing" /\ reqPath = JsonRoute
    /\ spc' = "check"
    /\ UNCHANGED <<file, reqPath, seenAtCheck, seenAtOpen, status, body, served>>
    /\ UNCHANGED <<normVars, pipeVars>>

\* do_GET, lines 21-23: the base class answers
RouteStatic ==
    /\ spc = "routing" /\ reqPath # JsonRoute
    /\ spc' = "done"
    /\ body' = "static"
    /\ \E st \in {200, 404} : status' = st
    /\ served' = served + 1
    /\ UNCHANGED <<file, reqPath, seenAtCheck, seenAtOpen>>
    /\ UNCHANGED <<normVars, pipeVars>>

\* serve_json_file, lines 28-30: the file is missing
CheckMissing ==
    /\ spc = "check" /\ file = "absent"
    /\ seenAtCheck' = file
    /\ status' = 404 /\ body' = "error"
    /\ spc' = "done"
    /\ served' = served + 1
    /\ UNCHANGED <<file, reqPath, seenAtOpen>>
    /\ UNCHANGED <<normVars, pipeVars>>

\* serve_json_file, line 28: the file exists
CheckExists ==
    /\ spc = "check" /\ file # "absent"
    /\ seenAtCheck' = file
    /\ spc' = "open"
    /\ UNCHANGED <<file, reqPath, seenAtOpen, status, body, served>>
    /\ UNCHANGED <<normVars, pipeVars>>

\* serve_json_file, line 33 raises (no such file), lines 48-49 answer
OpenFails ==
    /\ spc = "open" /\ file = "absent"
    /\ seenAtOpen' = file
    /\ status' = 500 /\ body' = "error"
    /\ spc' = "done"
    /\ served' = served + 1
    /\ UNCHANGED <<file, reqPath, seenAtCheck>>
    /\ UNCHANGED <<normVars, pipeVars>>

\* serve_json_file, line 33: the file is open
OpenFile ==
    /\ spc = "open" /\ file # "absent"
    /\ seenAtOpen' = file
    /\ spc' = "read"
    /\ UNCHANGED <<file, reqPath, seenAtCheck, status, body, served>>
    /\ UNCHANGED <<normVars, pipeVars>>

\* What json.load may read from the open file: the text it held when it was
\* opened, or the text another process has written into it since.
Readable == {seenAtOpen} \cup ({file} \ {"absent"})

\* serve_json_file, line 34 raises (no JSON), lines 48-49 answer
ParseFails ==
    /\ spc = "read" /\ "invalid" \in Readable
    /\ status' = 500 /\ body' = "error"
    /\ spc' = "done"
    /\ served' = served + 1
    /\ UNCHANGED <<file, reqPath, seenAtCheck, seenAtOpen>>
    /\ UNCHANGED <<normVars, pipeVars>>

\* serve_json_file, lines 34-46: parsed, answered with the JSON text
SendJson ==
    /\ spc = "read" /\ "valid" \in Readable
    /\ status' = 200 /\ body' = "json"
    /\ spc' = "done"
    /\ served' = served + 1
    /\ UNCHANGED <<file, reqPath, seenAtCheck, seenAtOpen>>
    /\ UNCHANGED <<normVars, pipeVars>>

NextServer ==
    \/ WriteFile \/ DeleteFile \/ Request \/ RouteJson \/ RouteStatic
    \/ CheckMissing \/ CheckExists \/ OpenFails \/ OpenFile \/ ParseFails \/ SendJson

SpecServer == InitServer /\ [][NextServer]_vars

\* C8: every GET of the JSON route is answered 404 if the file is absent,
\* 500 if reading or parsing it fails, and 200 with the JSON body otherwise,
\* under every interleaving with a process that changes the file.
C8_StatusByFileState ==
    (spc = "done" /\ reqPath = JsonRoute) =>
        IF "absent" \in {seenAtCheck, seenAtOpen} THEN status = 404
        ELSE IF body = "error" THEN status = 500
        ELSE status = 200 /\ body = "json"

====
